---- MODULE Spec2Model ----
(***************************************************************************)
(* Model of server.js: the shared dice roller with sessions, GM election,  *)
(* hidden rolls, bounded history and delayed cleanup of empty sessions.    *)
(*                                                                         *)
(* Strings are sequences of one-character strings, so that trim(),         *)
(* toUpperCase() and substring() are computed.  The JS values null,        *)
(* undefined and "" of a string-typed field are all falsy in every test    *)
(* the code makes on them and are modelled by the empty sequence; a null   *)
(* socket id or timer handle is 0.                                         *)
(*                                                                         *)
(* A handler runs to completion, so each is one step.  What it does is     *)
(* an operator (JoinOutcome, RollOutcome, ...) giving the state it leaves  *)
(* and the emit calls it makes; the emissions are read from there and are  *)
(* not kept in the state.                                                  *)
(***************************************************************************)
EXTENDS Integers, Sequences, FiniteSets, TLC

\* ------------------------------------------------------------------ bounds
NumSockets == 2
MaxRolls == 1
HistRolls == 102
PresenceSockets == 3

\* ------------------------------------------------------- program constants
HISTORY_LIMIT == 100
MAX_NAME_LEN == 24
MAX_CLIENT_ID_LEN == 64
MIN_DICE == 1
MAX_DICE == 6
DIE_SIDES == 6

\* --------------------------------------------------------- string helpers
Null == <<>>
NoSocket == 0
NoTimer == 0

Lower == <<"a","b","c","d","e","f","g","h","i","j","k","l","m",
           "n","o","p","q","r","s","t","u","v","w","x","y","z">>
Upper == <<"A","B","C","D","E","F","G","H","I","J","K","L","M",
           "N","O","P","Q","R","S","T","U","V","W","X","Y","Z">>
Whitespace == {" ", "\t", "\n", "\r"}

ToUpperChar(c) ==
  IF \E i \in 1..Len(Lower) : Lower[i] = c
  THEN Upper[CHOOSE i \in 1..Len(Lower) : Lower[i] = c]
  ELSE c

ToUpperCase(s) == [i \in 1..Len(s) |-> ToUpperChar(s[i])]

RECURSIVE TrimStart(_)
TrimStart(s) ==
  IF s # <<>> /\ Head(s) \in Whitespace THEN TrimStart(Tail(s)) ELSE s

RECURSIVE TrimEnd(_)
TrimEnd(s) ==
  IF s # <<>> /\ s[Len(s)] \in Whitespace
  THEN TrimEnd(SubSeq(s, 1, Len(s) - 1)) ELSE s

Trim(s) == TrimEnd(TrimStart(s))

\* s.substring(0, n)
Substring(s, n) == IF Len(s) <= n THEN s ELSE SubSeq(s, 1, n)

\* a || b on strings
OrElse(a, b) == IF a = <<>> THEN b ELSE a

Anonymous == <<"A","n","o","n","y","m","o","u","s">>

\* normalizeSessionId without the trim()
normalizeSessionId_NoTrim(id) ==
  IF id = <<>> THEN Null ELSE ToUpperCase(id)

normalizeSessionId(id) ==
  IF id = <<>> THEN Null ELSE ToUpperCase(Trim(id))

SafeName(name) ==
  OrElse(Substring(Trim(OrElse(name, Anonymous)), MAX_NAME_LEN), Anonymous)

\* rnd is the outcome of Math.random().toString(36).slice(2)
SafeClientId(clientId, rnd) ==
  OrElse(Substring(clientId, MAX_CLIENT_ID_LEN), <<"c", "-">> \o rnd)

\* ---------------------------------------------------------------- Map ops
\* session.users is a JS Map: a sequence of entries in insertion order
MapHas(m, k) == \E i \in 1..Len(m) : m[i].id = k
MapKeys(m) == {m[i].id : i \in 1..Len(m)}
MapGet(m, k) == m[CHOOSE i \in 1..Len(m) : m[i].id = k]
MapSet(m, k, name, clientId) ==
  LET e == [id |-> k, name |-> name, clientId |-> clientId] IN
  IF MapHas(m, k)
  THEN [i \in 1..Len(m) |-> IF m[i].id = k THEN e ELSE m[i]]
  ELSE Append(m, e)
MapDelete(m, k) == SelectSeq(m, LAMBDA e : e.id # k)

Min(a, b) == IF a < b THEN a ELSE b
Max(a, b) == IF a > b THEN a ELSE b

\* ------------------------------------------------------------------ state
VARIABLES
  sessions,   \* the registry: normalized session id -> session record
  timers,     \* pending setTimeout callbacks: [id, sessionId]
  sockets,    \* socket id -> [connected, sessionId, name, clientId, rooms]
  rollsMade   \* number of rolls created so far (orders the roll ids)

vars == <<sessions, timers, sockets, rollsMade>>

NewSession ==
  [users |-> <<>>, gmClientId |-> Null, gmSocketId |-> NoSocket,
   history |-> <<>>, cleanupTimer |-> NoTimer]

\* sessions.set / sessions.delete
SessionsSet(reg, id, session) == (id :> session) @@ reg
SessionsDelete(reg, id) == [r \in (DOMAIN reg) \ {id} |-> reg[r]]

getOrCreateSession(reg, sessionId) ==
  IF sessionId \in DOMAIN reg THEN reg ELSE SessionsSet(reg, sessionId, NewSession)

\* ---------------------------------------------------------- transport
\* io.sockets.sockets: the sockets currently connected
Connected == {s \in DOMAIN sockets : sockets[s].connected}

\* members of the socket.io room of a session, in socket table sk
RoomMembers(sk, room) == {s \in DOMAIN sk : room \in sk[s].rooms}

\* every socket is alone in the socket.io room named by its own id
OwnRoom(sk, sid) == {s \in DOMAIN sk : s = sid /\ sk[s].connected}

Init ==
  /\ sessions = <<>>
  /\ timers = {}
  /\ sockets = <<>>
  /\ rollsMade = 0

\* ---------------------------------------------------------------- helpers
\* the id and the timestamp of a roll both come from the clock: seq, the
\* rank of the roll among all rolls made, stands for them
makeRoll(by, sessionId, dice, hidden, clientId, seq) ==
  [id |-> seq, by |-> by, sessionId |-> sessionId, dice |-> dice,
   hidden |-> hidden, clientId |-> clientId]

buildUsersPayload(session, includeClientIds) ==
  [i \in 1..Len(session.users) |->
     LET info == session.users[i] IN
     IF includeClientIds
     THEN [id |-> info.id, name |-> info.name,
           isGM |-> info.clientId = session.gmClientId,
           clientId |-> info.clientId]
     ELSE [id |-> info.id, name |-> info.name,
           isGM |-> info.clientId = session.gmClientId]]

IsGMClient(session, clientId) ==
  clientId # Null /\ clientId = session.gmClientId

\* buildHistoryForClient filtering hidden rolls for every viewer
buildHistoryForClient_NoGM(session, clientId) ==
  SelectSeq(session.history, LAMBDA r : ~r.hidden)

buildHistoryForClient(session, clientId) ==
  IF IsGMClient(session, clientId)
  THEN session.history
  ELSE SelectSeq(session.history, LAMBDA r : ~r.hidden)

\* setTimeout returns a handle no live reference designates
FreshTimer(reg, tm) ==
  LET used == {t.id : t \in tm} \cup {reg[r].cleanupTimer : r \in DOMAIN reg}
  IN CHOOSE n \in 1..(Cardinality(used) + 1) :
       n \notin used /\ \A k \in 1..(n - 1) : k \in used

clearTimeout(tm, handle) == {t \in tm : t.id # handle}

\* cleanupSessionIfEmpty without the test of line 92: it arms a timer for an
\* empty room even when one is pending
cleanupSessionIfEmpty_Rearm(reg, tm, sessionId) ==
  IF sessionId \notin DOMAIN reg THEN [sessions |-> reg, timers |-> tm]
  ELSE IF Len(reg[sessionId].users) > 0
  THEN IF reg[sessionId].cleanupTimer # NoTimer
       THEN [sessions |-> [reg EXCEPT ![sessionId].cleanupTimer = NoTimer],
             timers |-> clearTimeout(tm, reg[sessionId].cleanupTimer)]
       ELSE [sessions |-> reg, timers |-> tm]
  ELSE LET h == FreshTimer(reg, tm) IN
       [sessions |-> [reg EXCEPT ![sessionId].cleanupTimer = h],
        timers |-> tm \cup {[id |-> h, sessionId |-> sessionId]}]

\* the registry and the pending timers after cleanupSessionIfEmpty(sessionId)
cleanupSessionIfEmpty(reg, tm, sessionId) ==
  IF sessionId \notin DOMAIN reg THEN [sessions |-> reg, timers |-> tm]
  ELSE LET session == reg[sessionId] IN
    IF Len(session.users) > 0
    THEN IF session.cleanupTimer # NoTimer
         THEN [sessions |-> [reg EXCEPT ![sessionId].cleanupTimer = NoTimer],
               timers |-> clearTimeout(tm, session.cleanupTimer)]
         ELSE [sessions |-> reg, timers |-> tm]
    ELSE IF session.cleanupTimer # NoTimer
         THEN [sessions |-> reg, timers |-> tm]
         ELSE LET h == FreshTimer(reg, tm) IN
              [sessions |-> [reg EXCEPT ![sessionId].cleanupTimer = h],
               timers |-> tm \cup {[id |-> h, sessionId |-> sessionId]}]

\* TimerCallback deleting any room without participants, whatever its history
TimerCallback_IgnoresHistory(reg, sessionId) ==
  IF sessionId \notin DOMAIN reg THEN reg
  ELSE IF Len(reg[sessionId].users) = 0
       THEN SessionsDelete(reg, sessionId)
       ELSE [reg EXCEPT ![sessionId].cleanupTimer = NoTimer]

\* TimerCallback that only resets the handle and never deletes the room
TimerCallback_KeepsRoom(reg, sessionId) ==
  IF sessionId \notin DOMAIN reg THEN reg
  ELSE [reg EXCEPT ![sessionId].cleanupTimer = NoTimer]

\* the callback of the timer armed by cleanupSessionIfEmpty, lines 94-102:
\* the registry after it ran
TimerCallback(reg, sessionId) ==
  IF sessionId \notin DOMAIN reg THEN reg
  ELSE LET current == reg[sessionId] IN
    IF Len(current.users) = 0 /\ Len(current.history) = 0
    THEN SessionsDelete(reg, sessionId)
    ELSE [reg EXCEPT ![sessionId].cleanupTimer = NoTimer]

\* ------------------------------------------------------------- emissions
\* An emission is one emit call of a handler: the event, the sockets that
\* receive it and the payload.
ErrorMessage(to, text) ==
  [event |-> "errorMessage", targets |-> {to}, message |-> text]

StateMessage(ev, to, sessionId, session, clientId) ==
  LET isGM == IsGMClient(session, clientId) IN
  [event |-> ev, targets |-> {to}, sessionId |-> sessionId, isGM |-> isGM,
   users |-> buildUsersPayload(session, isGM),
   history |-> buildHistoryForClient(session, clientId)]

\* PresenceMessages whose broadcast forgets .except(gmSocketId)
PresenceMessages_NoExcept(ev, sk, s, sessionId, session, sendToGM) ==
  LET gmSocketId == session.gmSocketId
      gmConnected == gmSocketId # NoSocket /\ MapHas(session.users, gmSocketId)
  IN <<[event |-> ev, targets |-> RoomMembers(sk, sessionId) \ {s},
        users |-> buildUsersPayload(session, FALSE)]>>
     \o (IF gmConnected /\ sendToGM
         THEN <<[event |-> ev, targets |-> OwnRoom(sk, gmSocketId),
                 users |-> buildUsersPayload(session, TRUE)]>>
         ELSE <<>>)

\* the audience-split presence update of join, leave and disconnect:
\* socket.to(room)[.except(gm)].emit(ev, public), then io.to(gm).emit(ev, full)
\* when sendToGM holds
PresenceMessages(ev, sk, s, sessionId, session, sendToGM) ==
  LET gmSocketId == session.gmSocketId
      gmConnected == gmSocketId # NoSocket /\ MapHas(session.users, gmSocketId)
      audience == (RoomMembers(sk, sessionId) \ {s}) \
                    (IF gmConnected THEN OwnRoom(sk, gmSocketId) ELSE {})
  IN <<[event |-> ev, targets |-> audience,
        users |-> buildUsersPayload(session, FALSE)]>>
     \o (IF gmConnected /\ sendToGM
         THEN <<[event |-> ev, targets |-> OwnRoom(sk, gmSocketId),
                 users |-> buildUsersPayload(session, TRUE)]>>
         ELSE <<>>)

\* --------------------------------------------------------------- handlers
\* What a handler does, from the current state: the registry, the pending
\* timers, the sockets and the roll count it leaves, and the emissions it
\* makes, in call order.
Outcome(reg, tm, sk, n, msgs) ==
  [sessions |-> reg, timers |-> tm, sockets |-> sk, rollsMade |-> n,
   sent |-> msgs]

\* a handler that only emits
Emits(msgs) == Outcome(sessions, timers, sockets, rollsMade, msgs)

\* the step of a handler with outcome o
Apply(o) ==
  /\ sessions' = o.sessions
  /\ timers' = o.timers
  /\ sockets' = o.sockets
  /\ rollsMade' = o.rollsMade

TimerOutcome(t) ==
  Outcome(TimerCallback(sessions, t.sessionId), timers \ {t}, sockets,
          rollsMade, <<>>)

TimerFire(t) == t \in timers /\ Apply(TimerOutcome(t))

\* io.on("connection"): a new socket, with its data cleared
ConnectOutcome ==
  Outcome(sessions, timers,
          Append(sockets, [connected |-> TRUE, sessionId |-> Null,
                           name |-> Null, clientId |-> Null, rooms |-> {}]),
          rollsMade, <<>>)

Connect == Len(sockets) < NumSockets /\ Apply(ConnectOutcome)

\* CancelCleanup that leaves the pending cleanup alone
CancelCleanup_Forgets(session, tm) == [session |-> session, timers |-> tm]

\* joinSession, lines 123-126: a pending cleanup is cancelled
CancelCleanup(session, tm) ==
  IF session.cleanupTimer # NoTimer
  THEN [session |-> [session EXCEPT !.cleanupTimer = NoTimer],
        timers |-> clearTimeout(tm, session.cleanupTimer)]
  ELSE [session |-> session, timers |-> tm]

\* DecideGM electing every joiner: the last clientId wins
DecideGM_LastWins(session, s, safeClientId) ==
  [session EXCEPT !.gmClientId = safeClientId, !.gmSocketId = s]

\* DecideGM that elects but never re-attaches a GM to an existing room
DecideGM_NoReattach(session, s, safeClientId) ==
  IF session.gmClientId = Null
  THEN [session EXCEPT !.gmClientId = safeClientId, !.gmSocketId = s]
  ELSE session

\* joinSession, lines 138-143: first clientId wins, the GM's socket re-attaches
DecideGM(session, s, safeClientId) ==
  LET s1 == IF session.gmClientId = Null
            THEN [session EXCEPT !.gmClientId = safeClientId] ELSE session
  IN IF safeClientId = s1.gmClientId THEN [s1 EXCEPT !.gmSocketId = s] ELSE s1

JoinOutcome(s, sessionId, name, clientId, rnd) ==
  LET normalized == normalizeSessionId(sessionId)
      safeName == SafeName(name)
      safeClientId == SafeClientId(clientId, rnd)
  IN
  IF normalized = Null
  THEN Emits(<<ErrorMessage(s, "Invalid session ID.")>>)
  ELSE
    LET reg1 == getOrCreateSession(sessions, normalized)
        c == CancelCleanup(reg1[normalized], timers)
        s2 == [c.session EXCEPT
                 !.users = MapSet(@, s, safeName, safeClientId)]
        session == DecideGM(s2, s, safeClientId)
        sk == [sockets EXCEPT ![s].sessionId = normalized,
                              ![s].name = safeName,
                              ![s].clientId = safeClientId,
                              ![s].rooms = @ \cup {normalized}]
    IN Outcome(SessionsSet(reg1, normalized, session), c.timers, sk, rollsMade,
               <<StateMessage("sessionJoined", s, normalized, session, safeClientId)>>
               \o PresenceMessages("userJoined", sk, s, normalized, session,
                                   session.gmSocketId # s))

JoinSession(s, sessionId, name, clientId, rnd) ==
  s \in Connected /\ Apply(JoinOutcome(s, sessionId, name, clientId, rnd))

RefreshOutcome(s) ==
  LET sessionId == sockets[s].sessionId
      clientId == sockets[s].clientId
  IN
  IF sessionId = Null \/ sessionId \notin DOMAIN sessions
  THEN Emits(<<ErrorMessage(s, "Not in a session.")>>)
  ELSE Emits(<<StateMessage("sessionState", s, sessionId,
                            sessions[sessionId], clientId)>>)

RefreshSession(s) == s \in Connected /\ Apply(RefreshOutcome(s))

\* a JS number: finite with value twice/2, or NaN / an infinity
Num(n) == [finite |-> TRUE, twice |-> 2 * n]
Halves(h) == [finite |-> TRUE, twice |-> h]
NaN == [finite |-> FALSE, twice |-> 0]

\* rollDice, lines 208-214: twice the sanitized numDice and numGilded
SanitizeDice(numDice) ==
  LET nd == IF numDice.finite THEN numDice.twice ELSE 2 * 1
  IN Max(2 * MIN_DICE, Min(2 * MAX_DICE, nd))

SanitizeGilded(nd, numGilded) ==
  LET ng == IF numGilded.finite THEN numGilded.twice ELSE 0
  IN Max(0, Min(nd, ng))

\* GenerateDice gilding die i when i <= ng instead of i < ng
GenerateDice_GildsOneMore(numDice, numGilded, draws) ==
  LET nd == SanitizeDice(numDice)
      ng == SanitizeGilded(nd, numGilded)
      count == (nd + 1) \div 2
  IN [k \in 1..count |->
        [value |-> draws[k] + 1, gilded |-> 2 * (k - 1) <= ng]]

\* rollDice, lines 216-221; draws[i + 1] is Math.floor(Math.random() * 6) of
\* iteration i, and the loop runs for every integer i >= 0 with i < nd
GenerateDice(numDice, numGilded, draws) ==
  LET nd == SanitizeDice(numDice)
      ng == SanitizeGilded(nd, numGilded)
      count == (nd + 1) \div 2
  IN [k \in 1..count |->
        [value |-> draws[k] + 1, gilded |-> 2 * (k - 1) < ng]]

\* PushHistory evicting the newest roll instead of the oldest
PushHistory_DropsNewest(history, roll) ==
  IF Len(history) >= HISTORY_LIMIT THEN history ELSE Append(history, roll)

\* rollDice, lines 231-234
PushHistory(history, roll) ==
  LET h == Append(history, roll)
  IN IF Len(h) > HISTORY_LIMIT THEN Tail(h) ELSE h

\* rollDice, lines 236-245: who gets the roll, or the roller's soft error
RollMessages(sk, s, sessionId, session, roll) ==
  IF roll.hidden
  THEN IF session.gmSocketId # NoSocket /\ sk[session.gmSocketId].connected
       THEN <<[event |-> "diceRolled",
               targets |-> OwnRoom(sk, session.gmSocketId), roll |-> roll]>>
       ELSE <<ErrorMessage(s, "Hidden roll: GM not currently connected.")>>
  ELSE <<[event |-> "diceRolled",
          targets |-> RoomMembers(sk, sessionId), roll |-> roll]>>

RollOutcome(s, numDice, numGilded, hidden, draws) ==
  LET sessionId == sockets[s].sessionId
      clientId == sockets[s].clientId
      name == OrElse(sockets[s].name, Anonymous)
  IN
  IF sessionId = Null \/ sessionId \notin DOMAIN sessions
  THEN Emits(<<ErrorMessage(s, "You must join a session first.")>>)
  ELSE
    LET session == sessions[sessionId]
        dice == GenerateDice(numDice, numGilded, draws)
        roll == makeRoll(name, sessionId, dice, hidden, clientId, rollsMade + 1)
    IN Outcome([sessions EXCEPT ![sessionId].history = PushHistory(@, roll)],
               timers, sockets, rollsMade + 1,
               RollMessages(sockets, s, sessionId, session, roll))

RollDice(s, numDice, numGilded, hidden, draws) ==
  s \in Connected /\ Apply(RollOutcome(s, numDice, numGilded, hidden, draws))

\* MayClearHistory letting any participant with a clientId clear
MayClearHistory_Anyone(session, clientId) == clientId # Null

\* clearHistory, line 259
MayClearHistory(session, clientId) ==
  ~(clientId = Null \/ clientId # session.gmClientId)

ClearOutcome(s) ==
  LET sessionId == sockets[s].sessionId
      clientId == sockets[s].clientId
  IN
  IF sessionId = Null \/ sessionId \notin DOMAIN sessions
  THEN Emits(<<ErrorMessage(s, "You must join a session first.")>>)
  ELSE IF ~MayClearHistory(sessions[sessionId], clientId)
  THEN Emits(<<ErrorMessage(s, "Only the GM can clear history.")>>)
  ELSE Outcome([sessions EXCEPT ![sessionId].history = <<>>],
               timers, sockets, rollsMade,
               <<[event |-> "historyCleared",
                  targets |-> RoomMembers(sockets, sessionId)]>>)

ClearHistory(s) == s \in Connected /\ Apply(ClearOutcome(s))

\* leaveSession, lines 276-279, on the session record
LeaveUpdate(session, s) ==
  [session EXCEPT !.users = MapDelete(@, s)]

LeaveOutcome(s) ==
  LET sessionId == sockets[s].sessionId IN
  IF sessionId = Null \/ sessionId \notin DOMAIN sessions
  THEN Outcome(sessions, timers, [sockets EXCEPT ![s].sessionId = Null],
               rollsMade, <<>>)
  ELSE
    LET session == LeaveUpdate(sessions[sessionId], s)
        sk == [sockets EXCEPT ![s].sessionId = Null,
                              ![s].rooms = @ \ {sessionId}]
        reg == [sessions EXCEPT ![sessionId] = session]
        c == cleanupSessionIfEmpty(reg, timers, sessionId)
    IN Outcome(c.sessions, c.timers, sk, rollsMade,
               PresenceMessages("userLeft", sk, s, sessionId, session,
                                session.gmSocketId # s))

LeaveSession(s) == s \in Connected /\ Apply(LeaveOutcome(s))

\* disconnect, lines 305-310, on the session record
DisconnectUpdate(session, s) ==
  LET s1 == [session EXCEPT !.users = MapDelete(@, s)]
  IN IF s1.gmSocketId = s THEN [s1 EXCEPT !.gmSocketId = NoSocket] ELSE s1

\* a socket the transport has closed: it is in no socket.io room and not in
\* the table of connected sockets, and no handler reads its data again
Closed ==
  [connected |-> FALSE, sessionId |-> Null, name |-> Null, clientId |-> Null,
   rooms |-> {}]

\* the transport closes socket s, then its "disconnect" handler runs
DisconnectOutcome(s) ==
  LET sessionId == sockets[s].sessionId
      sk == [sockets EXCEPT ![s] = Closed]
  IN
  IF sessionId = Null \/ sessionId \notin DOMAIN sessions
  THEN Outcome(sessions, timers, sk, rollsMade, <<>>)
  ELSE
    LET session == DisconnectUpdate(sessions[sessionId], s)
        reg == [sessions EXCEPT ![sessionId] = session]
        c == cleanupSessionIfEmpty(reg, timers, sessionId)
    IN Outcome(c.sessions, c.timers, sk, rollsMade,
               PresenceMessages("userLeft", sk, s, sessionId, session, TRUE))

Disconnect(s) == s \in Connected /\ Apply(DisconnectOutcome(s))

\* ----------------------------------------------------------------- inputs
\* what clients send with joinSession: no session id or a blank one, and one
\* code in two spellings; a name to trim with a clientId, and a name with no
\* clientId (the server then makes one up)
JoinRequests ==
  { [sessionId |-> <<>>, name |-> <<" ", "G">>, clientId |-> <<"g">>],
    [sessionId |-> <<" ">>, name |-> <<"B">>, clientId |-> <<>>],
    [sessionId |-> <<" ", "a">>, name |-> <<" ", "G">>, clientId |-> <<"g">>],
    [sessionId |-> <<"A", " ">>, name |-> <<"B">>, clientId |-> <<>>] }

RandomIds == { <<"x">> }

RollRequests ==
  { [numDice |-> Num(2), numGilded |-> Num(1)] }

Draws == { <<2, 4, 0, 5, 1, 3>> }

SocketIds == 1..NumSockets

Join ==
  \E s \in SocketIds, q \in JoinRequests, rnd \in RandomIds :
    JoinSession(s, q.sessionId, q.name, q.clientId, rnd)

Refresh == \E s \in SocketIds : RefreshSession(s)

Roll ==
  \E s \in SocketIds, q \in RollRequests, hidden \in BOOLEAN, d \in Draws :
    /\ rollsMade < MaxRolls
    /\ RollDice(s, q.numDice, q.numGilded, hidden, d)

Clear == \E s \in SocketIds : ClearHistory(s)

Leave == \E s \in SocketIds : LeaveSession(s)

Drop == \E s \in SocketIds : Disconnect(s)

Timeout == \E t \in timers : TimerFire(t)

Next ==
  \/ Connect
  \/ Join
  \/ Refresh
  \/ Roll
  \/ Clear
  \/ Leave
  \/ Drop
  \/ Timeout

Spec == Init /\ [][Next]_vars

\* every outcome a handler can have in the current state satisfies P
EveryJoin(P(_, _)) ==
  \A s \in Connected, q \in JoinRequests, rnd \in RandomIds :
    P(s, JoinOutcome(s, q.sessionId, q.name, q.clientId, rnd))

EveryRefresh(P(_, _)) == \A s \in Connected : P(s, RefreshOutcome(s))

EveryRoll(P(_, _)) ==
  \A s \in Connected, q \in RollRequests, hidden \in BOOLEAN, d \in Draws :
    rollsMade < MaxRolls => P(s, RollOutcome(s, q.numDice, q.numGilded, hidden, d))

EveryClear(P(_, _)) == \A s \in Connected : P(s, ClearOutcome(s))

EveryLeave(P(_, _)) == \A s \in Connected : P(s, LeaveOutcome(s))

EveryDrop(P(_, _)) == \A s \in Connected : P(s, DisconnectOutcome(s))

\* some outcome a handler can have in the current state satisfies P
SomeJoin(P(_, _)) ==
  \E s \in Connected, q \in JoinRequests, rnd \in RandomIds :
    P(s, JoinOutcome(s, q.sessionId, q.name, q.clientId, rnd))

SomeRoll(P(_, _)) ==
  \E s \in Connected, q \in RollRequests, hidden \in BOOLEAN, d \in Draws :
    rollsMade < MaxRolls /\ P(s, RollOutcome(s, q.numDice, q.numGilded, hidden, d))

SomeClear(P(_, _)) == \E s \in Connected : P(s, ClearOutcome(s))

SomeLeave(P(_, _)) == \E s \in Connected : P(s, LeaveOutcome(s))

SomeDrop(P(_, _)) == \E s \in Connected : P(s, DisconnectOutcome(s))

\* the newest roll of a history
LastRoll(history) == history[Len(history)]

\* the room ids the join requests lead to
SessionIds == { normalizeSessionId(q.sessionId) : q \in JoinRequests } \ {Null}

\* ------------------------------------------------ fairness of the timers
\* setTimeout: a pending timer that is not cleared fires, after the grace
\* period; the clients are under no obligation to do anything.
TimeoutOf(r) == \E t \in timers : t.sessionId = r /\ TimerFire(t)

SpecLive == Spec /\ \A r \in SessionIds : WF_vars(TimeoutOf(r))

\* ------------------------------------------------- history specification
\* One client that joins, rolls openly up to HistRolls times, refreshes,
\* leaves and comes back; nobody clears the history.
HistRequest ==
  [sessionId |-> <<"a">>, name |-> <<"G">>, clientId |-> <<"g">>]

ConnectHist == Len(sockets) < 1 /\ Connect

JoinHist ==
  \E rnd \in RandomIds :
    JoinSession(1, HistRequest.sessionId, HistRequest.name, HistRequest.clientId, rnd)

RefreshHist == RefreshSession(1)

RollHist ==
  \E q \in RollRequests, d \in Draws :
    /\ rollsMade < HistRolls
    /\ RollDice(1, q.numDice, q.numGilded, FALSE, d)

LeaveHist == LeaveSession(1)

NextHist ==
  \/ ConnectHist
  \/ JoinHist
  \/ RefreshHist
  \/ RollHist
  \/ LeaveHist
  \/ Timeout

SpecHist == Init /\ [][NextHist]_vars

\* ---------------------------------------------------- dice specification
\* One client that joins and rolls with every kind of numDice and numGilded:
\* not a number, negative, zero, fractional, in range and over the range.
DiceCounts == { NaN, Num(-1), Num(0), Num(1), Halves(5), Num(6), Num(7) }

GildedCounts == { NaN, Num(-1), Num(0), Halves(3), Num(2), Num(7) }

DiceDraws == { <<2, 4, 0, 5, 1, 3>>, <<5, 0, 3, 3, 2, 4>>, <<0, 5, 5, 1, 4, 2>> }

RollAny ==
  \E numDice \in DiceCounts, numGilded \in GildedCounts,
     hidden \in BOOLEAN, d \in DiceDraws :
    /\ rollsMade < MaxRolls
    /\ RollDice(1, numDice, numGilded, hidden, d)

NextDice ==
  \/ ConnectHist
  \/ JoinHist
  \/ RollAny
  \/ LeaveHist
  \/ Timeout

SpecDice == Init /\ [][NextDice]_vars

\* ------------------------------------------------ presence specification
\* Up to PresenceSockets clients in one room, joining with the GM's token or
\* with none, leaving and dropping; nobody rolls.
PresenceRequests ==
  { [sessionId |-> <<"a">>, name |-> <<"G">>, clientId |-> <<"g">>],
    [sessionId |-> <<"a">>, name |-> <<"B">>, clientId |-> <<>>] }

ConnectPresence == Len(sockets) < PresenceSockets /\ Apply(ConnectOutcome)

JoinPresence ==
  \E s \in DOMAIN sockets, q \in PresenceRequests, rnd \in RandomIds :
    JoinSession(s, q.sessionId, q.name, q.clientId, rnd)

LeavePresence == \E s \in DOMAIN sockets : LeaveSession(s)

DropPresence == \E s \in DOMAIN sockets : Disconnect(s)

NextPresence ==
  \/ ConnectPresence
  \/ JoinPresence
  \/ LeavePresence
  \/ DropPresence
  \/ Timeout

SpecPresence == Init /\ [][NextPresence]_vars

\* --------------------------------------------------- rooms specification
\* Clients that move between two rooms, with or without leaving the one
\* they are in.
RoomRequests ==
  { [sessionId |-> <<"a">>, name |-> <<"G">>, clientId |-> <<"g">>],
    [sessionId |-> <<"a">>, name |-> <<"B">>, clientId |-> <<>>],
    [sessionId |-> <<"b">>, name |-> <<"G">>, clientId |-> <<"g">>],
    [sessionId |-> <<"b">>, name |-> <<"B">>, clientId |-> <<>>] }

JoinRooms ==
  \E s \in SocketIds, q \in RoomRequests, rnd \in RandomIds :
    JoinSession(s, q.sessionId, q.name, q.clientId, rnd)

NextRooms ==
  \/ Connect
  \/ JoinRooms
  \/ Leave
  \/ Drop
  \/ Timeout

SpecRooms == Init /\ [][NextRooms]_vars

\* the rooms whose users map has socket s as a key
RoomsOf(s) == {r \in DOMAIN sessions : MapHas(sessions[r].users, s)}

\* the dice of every roll the joined client can make now satisfy P
EveryDice(P(_, _, _)) ==
  \A numDice \in DiceCounts, numGilded \in GildedCounts, d \in DiceDraws :
    (1 \in Connected /\ sockets[1].sessionId \in DOMAIN sessions) =>
      P(numDice, numGilded,
        LastRoll(RollOutcome(1, numDice, numGilded, FALSE, d)
                   .sessions[sockets[1].sessionId].history).dice)

\* ------------------------------------------------------ reading emissions
\* the hidden rolls a message carries, live or as history
HiddenRollsOf(m) ==
  IF m.event = "diceRolled"
  THEN IF m.roll.hidden THEN {m.roll} ELSE {}
  ELSE IF m.event \in {"sessionJoined", "sessionState"}
  THEN {m.history[k] : k \in {j \in 1..Len(m.history) : m.history[j].hidden}}
  ELSE {}

\* msgs starts with the sessionJoined ack of socket s for room r
IsJoinAck(msgs, s, r) ==
  /\ Len(msgs) >= 1
  /\ msgs[1].event = "sessionJoined"
  /\ msgs[1].targets = {s}
  /\ msgs[1].sessionId = r

Attached(session, s) ==
  /\ MapHas(session.users, s)
  /\ MapGet(session.users, s).clientId = session.gmClientId

\* ----------------------------------------------------------------- claims

\* C1: hidden-roll confidentiality.  Whatever handler runs, no emission that
\* carries a hidden roll (a live diceRolled, or the history of a
\* sessionJoined / sessionState) reaches a socket whose clientId, once the
\* handler is done, differs from the gmClientId of the roll's room.
C1_HiddenRollsOnlyToGM ==
  LET Confidential(s, o) ==
        \A i \in 1..Len(o.sent) : \A u \in o.sent[i].targets :
          \A r \in HiddenRollsOf(o.sent[i]) :
            /\ r.sessionId \in DOMAIN o.sessions
            /\ o.sockets[u].clientId = o.sessions[r.sessionId].gmClientId
  IN /\ EveryJoin(Confidential)
     /\ EveryRefresh(Confidential)
     /\ EveryRoll(Confidential)

\* C2: GM attachment invariant.  In every room, a set gmSocketId is a key of
\* the users map and the clientId stored for it is the room's gmClientId.
C2_GMSocketAttached ==
  \A r \in DOMAIN sessions :
    sessions[r].gmSocketId # NoSocket => Attached(sessions[r], sessions[r].gmSocketId)

\* C3: the GM identity is first-wins and stable.  A room that appears in
\* the registry was created by the joinSession of its one participant and
\* its gmClientId is that joiner's clientId; a room that stays in the
\* registry keeps its gmClientId, whatever the step; so only the room's
\* deletion erases it.
C3_GMIdentityStable ==
  [][\A r \in DOMAIN sessions' :
       IF r \in DOMAIN sessions
       THEN sessions'[r].gmClientId = sessions[r].gmClientId
       ELSE \E s \in Connected :
              /\ MapKeys(sessions'[r].users) = {s}
              /\ sockets'[s].sessionId = r
              /\ sockets'[s].clientId # Null
              /\ sessions'[r].gmClientId = sockets'[s].clientId]_vars

\* the elected GM is gone, and the room's only participant, who joined with
\* another clientId, did not take over
C3_OtherJoinerNotGM ==
  \E r \in DOMAIN sessions :
    /\ Len(sessions[r].users) = 1
    /\ sessions[r].gmClientId # Null
    /\ sessions[r].users[1].clientId # sessions[r].gmClientId
    /\ sessions[r].gmSocketId = NoSocket

\* C4: GM re-attachment.  A joinSession into an existing room with the
\* room's gmClientId is acknowledged with isGM = TRUE and makes the joining
\* socket the room's gmSocketId; and a hidden roll made while a connected,
\* attached socket is the room's gmSocketId is delivered to that socket.
C4_GMReattaches ==
  /\ EveryJoin(LAMBDA s, o :
       \A r \in DOMAIN sessions :
         (IsJoinAck(o.sent, s, r) /\ o.sockets[s].clientId = sessions[r].gmClientId)
           => /\ o.sent[1].isGM
              /\ o.sessions[r].gmSocketId = s)
  /\ EveryRoll(LAMBDA s, o :
       \A r \in DOMAIN sessions : \A g \in Connected :
         ( /\ sockets[s].sessionId = r
           /\ o.sessions[r].history[Len(o.sessions[r].history)].hidden
           /\ sessions[r].gmSocketId = g
           /\ Attached(sessions[r], g) )
           => \E i \in 1..Len(o.sent) :
                /\ o.sent[i].event = "diceRolled"
                /\ g \in o.sent[i].targets
                /\ o.sent[i].roll = o.sessions[r].history[Len(o.sessions[r].history)])

\* the first connection has dropped; the second one, alone in the room, is
\* the attached GM, and a hidden roll made now is delivered to it
C4_ReconnectedGM ==
  /\ Len(sockets) = 2
  /\ ~sockets[1].connected
  /\ \E r \in DOMAIN sessions :
       /\ sessions[r].gmSocketId = 2
       /\ MapKeys(sessions[r].users) = {2}
       /\ Attached(sessions[r], 2)
       /\ SomeRoll(LAMBDA s, o :
            /\ Len(o.sent) = 1
            /\ o.sent[1].event = "diceRolled"
            /\ o.sent[1].roll.hidden
            /\ o.sent[1].targets = {2})

\* C5: leaveSession and disconnect of the socket recorded as a room's
\* gmSocketId leave that room with gmSocketId unset and gmClientId unchanged;
\* leave or disconnect of another socket changes neither field.
C5_GMLeaveClearsSocket ==
  LET Detached(s, o) ==
        \A r \in DOMAIN sessions \cap DOMAIN o.sessions :
          /\ o.sessions[r].gmClientId = sessions[r].gmClientId
          /\ o.sessions[r].gmSocketId =
               IF sessions[r].gmSocketId = s THEN NoSocket
               ELSE sessions[r].gmSocketId
  IN EveryLeave(Detached) /\ EveryDrop(Detached)

\* C6: history bound.  A room's history never has more than HISTORY_LIMIT
\* entries, and once more than HISTORY_LIMIT rolls were made in the room with
\* no clearHistory, it is exactly the HISTORY_LIMIT latest rolls, oldest
\* first.  (Under SpecHist every roll goes to the one room and the roll ids
\* count the rolls.)
C6_HistoryBound ==
  \A r \in DOMAIN sessions :
    LET h == sessions[r].history IN
    /\ Len(h) <= HISTORY_LIMIT
    /\ Len(h) = Min(rollsMade, HISTORY_LIMIT)
    /\ \A k \in 1..Len(h) : h[k].id = rollsMade - Len(h) + k

\* more rolls than the limit were made: the oldest ones are gone
C6_Evicted ==
  /\ rollsMade > HISTORY_LIMIT + 1
  /\ \E r \in DOMAIN sessions :
       /\ Len(sessions[r].history) = HISTORY_LIMIT
       /\ sessions[r].history[1].id = rollsMade - HISTORY_LIMIT + 1
       /\ sessions[r].history[HISTORY_LIMIT].id = rollsMade

\* C7: deletion safety.  A room leaves the registry only in a step in which
\* a pending cleanup timer of that room fires, and only from a state in
\* which it has no participants and an empty history.
C7_DeletionSafety ==
  [][\A r \in (DOMAIN sessions) \ (DOMAIN sessions') :
       /\ Len(sessions[r].users) = 0
       /\ Len(sessions[r].history) = 0
       /\ \E t \in timers \ timers' : t.sessionId = r]_vars

\* no room is left although a connected socket once joined one and left it
C7_RoomDeleted ==
  /\ DOMAIN sessions = {}
  /\ timers = {}
  /\ \E s \in Connected : sockets[s].clientId # Null /\ sockets[s].sessionId = Null

\* C8: an abandoned room with history survives the grace period.  When the
\* timer of a room without participants and with a non-empty history fires,
\* the room stays and only its cleanupTimer changes, to none; and a
\* joinSession with the room's gmClientId is acknowledged with isGM = TRUE
\* and the room's whole history, hidden rolls included.
C8_AbandonedRoomSurvives ==
  /\ \A t \in timers :
       ( /\ t.sessionId \in DOMAIN sessions
         /\ Len(sessions[t.sessionId].users) = 0
         /\ Len(sessions[t.sessionId].history) > 0 )
         => TimerOutcome(t).sessions =
              [sessions EXCEPT ![t.sessionId].cleanupTimer = NoTimer]
  /\ EveryJoin(LAMBDA s, o :
       \A r \in DOMAIN sessions :
         (IsJoinAck(o.sent, s, r) /\ o.sockets[s].clientId = sessions[r].gmClientId)
           => /\ o.sent[1].isGM
              /\ o.sent[1].history = sessions[r].history
              /\ o.sessions[r].history = sessions[r].history)

\* the only participant there was has dropped and the timer has fired: the
\* room is still there with its GM identity and its hidden roll, and a
\* connection that never joined gets that roll as the GM
C8_SurvivedGrace ==
  /\ Len(sockets) = 2
  /\ ~sockets[1].connected
  /\ sockets[2].connected /\ sockets[2].clientId = Null
  /\ timers = {}
  /\ \E r \in DOMAIN sessions :
       /\ Len(sessions[r].users) = 0
       /\ sessions[r].cleanupTimer = NoTimer
       /\ sessions[r].gmSocketId = NoSocket
       /\ \E k \in 1..Len(sessions[r].history) : sessions[r].history[k].hidden
       /\ SomeJoin(LAMBDA s, o :
            /\ IsJoinAck(o.sent, s, r)
            /\ o.sent[1].isGM
            /\ o.sent[1].history = sessions[r].history)

\* C9: idempotent arm.  No room ever has two pending cleanup timers; a
\* pending timer is the one the room's cleanupTimer designates; and
\* cleanupSessionIfEmpty, run for a room without participants whose timer
\* is armed, changes neither the registry nor the pending timers.
C9_IdempotentArm ==
  \A r \in SessionIds :
    /\ Cardinality({t \in timers : t.sessionId = r}) <= 1
    /\ \A t \in timers :
         t.sessionId = r => r \in DOMAIN sessions /\ sessions[r].cleanupTimer = t.id
    /\ ( /\ r \in DOMAIN sessions
         /\ Len(sessions[r].users) = 0
         /\ sessions[r].cleanupTimer # NoTimer )
         => cleanupSessionIfEmpty(sessions, timers, r)
              = [sessions |-> sessions, timers |-> timers]

\* a room without participants whose one cleanup timer is pending
C9_Draining ==
  \E r \in DOMAIN sessions :
    /\ Len(sessions[r].users) = 0
    /\ sessions[r].cleanupTimer # NoTimer
    /\ {t.id : t \in {u \in timers : u.sessionId = r}} = {sessions[r].cleanupTimer}
    /\ Connected # {}

\* C10: clearHistory is GM-only.  When the caller is in a room and its
\* clientId is the room's gmClientId, the room's history becomes empty and
\* one historyCleared goes to every connected participant of the room;
\* otherwise the caller alone gets one errorMessage and nothing changes.
C10_ClearHistoryGMOnly ==
  EveryClear(LAMBDA s, o :
    sockets[s].sessionId \in DOMAIN sessions =>
      LET r == sockets[s].sessionId IN
      IF sockets[s].clientId = sessions[r].gmClientId
      THEN /\ o.sessions = [sessions EXCEPT ![r].history = <<>>]
           /\ Len(o.sent) = 1
           /\ o.sent[1].event = "historyCleared"
           /\ o.sent[1].targets = MapKeys(sessions[r].users) \cap Connected
      ELSE /\ Len(o.sent) = 1
           /\ o.sent[1].event = "errorMessage"
           /\ o.sent[1].targets = {s}
           /\ o.sessions = sessions
           /\ o.timers = timers
           /\ o.sockets = sockets
           /\ o.rollsMade = rollsMade)

\* a room with history and two participants: the clearHistory of one is
\* refused, that of the other goes through and reaches both
C10_RefusedAndCleared ==
  \E r \in DOMAIN sessions :
    /\ Len(sessions[r].history) > 0
    /\ Cardinality(MapKeys(sessions[r].users) \cap Connected) = 2
    /\ SomeClear(LAMBDA s, o :
         /\ sockets[s].sessionId = r
         /\ o.sent[1].event = "errorMessage"
         /\ o.sessions = sessions)
    /\ SomeClear(LAMBDA s, o :
         /\ sockets[s].sessionId = r
         /\ o.sent[1].event = "historyCleared"
         /\ Cardinality(o.sent[1].targets) = 2
         /\ o.sessions[r].history = <<>>)

\* the connected participants of a room that hold the room's GM token
GMParticipants(session, sk) ==
  {session.users[i].id : i \in
     {j \in 1..Len(session.users) :
        /\ session.users[j].clientId = session.gmClientId
        /\ sk[session.users[j].id].connected}}

NoGMError == "Hidden roll: GM not currently connected."

\* C11: hidden roll with the GM absent.  When a hidden roll is made in a
\* room none of whose participants is a connected holder of the GM token
\* (and whose gmSocketId, if set, is not a participant either), no
\* diceRolled reaches any socket, the roller gets the soft error, and the
\* roll is the newest entry of the room's history; and a later joinSession
\* with the GM's clientId gets every hidden roll of the history in its ack.
C11_HiddenRollGMAbsent ==
  /\ EveryRoll(LAMBDA s, o :
       \A r \in DOMAIN sessions :
         ( /\ sockets[s].sessionId = r
           /\ LastRoll(o.sessions[r].history).hidden
           /\ GMParticipants(sessions[r], sockets) = {}
           /\ ~MapHas(sessions[r].users, sessions[r].gmSocketId) )
           => /\ \A i \in 1..Len(o.sent) :
                   o.sent[i].event = "diceRolled" => o.sent[i].targets = {}
              /\ \E i \in 1..Len(o.sent) : o.sent[i] = ErrorMessage(s, NoGMError)
              /\ Len(o.sessions[r].history) = Len(sessions[r].history) + 1
              /\ LastRoll(o.sessions[r].history).id = rollsMade + 1)
  /\ EveryJoin(LAMBDA s, o :
       \A r \in DOMAIN sessions :
         (IsJoinAck(o.sent, s, r) /\ o.sockets[s].clientId = sessions[r].gmClientId)
           => \A k \in 1..Len(sessions[r].history) :
                sessions[r].history[k].hidden =>
                  \E j \in 1..Len(o.sent[1].history) :
                    o.sent[1].history[j] = sessions[r].history[k])

\* the messages of msgs whose participants list carries clientId fields
WithClientIds(msgs) ==
  {i \in 1..Len(msgs) :
     /\ "users" \in DOMAIN msgs[i]
     /\ \E k \in 1..Len(msgs[i].users) : "clientId" \in DOMAIN msgs[i].users[k]}

\* C12: identity tokens are exposed only to the GM.  Whatever join,
\* refresh, leave or disconnect runs, a participants list whose entries carry
\* a clientId (in sessionJoined, sessionState, userJoined or userLeft) only
\* reaches sockets whose clientId, once the handler is done, is the
\* gmClientId of the room the list is about.
C12_ClientIdsOnlyToGM ==
  LET OnlyToGM(o, r) ==
        \A i \in WithClientIds(o.sent) : \A u \in o.sent[i].targets :
          o.sockets[u].clientId = o.sessions[r].gmClientId
  IN /\ EveryJoin(LAMBDA s, o : OnlyToGM(o, o.sockets[s].sessionId))
     /\ EveryRefresh(LAMBDA s, o : OnlyToGM(o, sockets[s].sessionId))
     /\ EveryLeave(LAMBDA s, o : OnlyToGM(o, sockets[s].sessionId))
     /\ EveryDrop(LAMBDA s, o : OnlyToGM(o, sockets[s].sessionId))

\* twice x clamped to [lo, hi], all in halves
Clamp(x, lo, hi) == IF x < lo THEN lo ELSE IF x > hi THEN hi ELSE x

\* the requested count in halves, a non-finite one replaced by its default
Requested(n, default) == IF n.finite THEN n.twice ELSE 2 * default

GildedCount(dice) == Cardinality({k \in 1..Len(dice) : dice[k].gilded})

\* C13 as stated: for every numDice and numGilded, the roll has 1 to 6 dice
\* with values in 1..6, the gilded dice are the first ones, and their number
\* is between 0 and the dice count and equals the requested gilded count
\* clamped to [0, clamped dice count].
C13_GildedEqualsClamped ==
  EveryDice(LAMBDA numDice, numGilded, dice :
    LET nd == Clamp(Requested(numDice, 1), 2 * 1, 2 * 6)
        ng == Clamp(Requested(numGilded, 0), 0, nd)
    IN /\ Len(dice) \in 1..6
       /\ \A k \in 1..Len(dice) : dice[k].value \in 1..6
       /\ GildedCount(dice) \in 0..Len(dice)
       /\ \A k \in 1..Len(dice) : dice[k].gilded <=> k <= GildedCount(dice)
       /\ 2 * GildedCount(dice) = ng)

\* C13, amended: as above, but the number of dice is the least whole number
\* not below the clamped numDice, and the number of gilded dice the least
\* whole number not below the requested gilded count clamped to
\* [0, clamped dice count]: they equal the clamped counts when these are whole.
C13_RollBounds ==
  EveryDice(LAMBDA numDice, numGilded, dice :
    LET nd == Clamp(Requested(numDice, 1), 2 * 1, 2 * 6)
        ng == Clamp(Requested(numGilded, 0), 0, nd)
        LeastWholeAbove(c, h) == 2 * (c - 1) < h /\ h <= 2 * c
    IN /\ Len(dice) \in 1..6
       /\ \A k \in 1..Len(dice) : dice[k].value \in 1..6
       /\ GildedCount(dice) \in 0..Len(dice)
       /\ \A k \in 1..Len(dice) : dice[k].gilded <=> k <= GildedCount(dice)
       /\ LeastWholeAbove(Len(dice), nd)
       /\ LeastWholeAbove(GildedCount(dice), ng))

\* a roll was made, and the rolls the client can make now include one of a
\* single die for a numDice that is not a number, one of six dice all
\* gilded for over-range counts, and one of three dice with two gilded for
\* numDice 2.5 and numGilded 1.5
C13_Rolled ==
  /\ rollsMade > 0
  /\ 1 \in Connected /\ sockets[1].sessionId \in DOMAIN sessions
  /\ Len(sessions[sockets[1].sessionId].history) > 0
  /\ \E d \in DiceDraws :
       LET DiceOf(numDice, numGilded) ==
             LastRoll(RollOutcome(1, numDice, numGilded, FALSE, d)
                        .sessions[sockets[1].sessionId].history).dice
       IN /\ Len(DiceOf(NaN, NaN)) = 1 /\ GildedCount(DiceOf(NaN, NaN)) = 0
          /\ Len(DiceOf(Num(7), Num(7))) = 6
          /\ GildedCount(DiceOf(Num(7), Num(7))) = 6
          /\ Len(DiceOf(Halves(5), Halves(3))) = 3
          /\ GildedCount(DiceOf(Halves(5), Halves(3))) = 2

\* C14: single-room membership.  Every socket id is a key of the users map
\* of at most one room, and then that room is the one its
\* socket.data.sessionId names.
C14_SingleRoom ==
  \A s \in DOMAIN sockets :
    /\ Cardinality(RoomsOf(s)) <= 1
    /\ \A r \in RoomsOf(s) : sockets[s].sessionId = r

\* C19: no ghost participants.  A socket whose disconnect has been handled
\* is a key of no room's users map; so a room with no connected socket among
\* its participants has no participants, and its cleanup timer is armed
\* unless its history kept it when the timer fired.
C19_NoGhosts ==
  /\ \A s \in DOMAIN sockets : ~sockets[s].connected => RoomsOf(s) = {}
  /\ \A r \in DOMAIN sessions :
       MapKeys(sessions[r].users) \cap Connected = {}
         => /\ Len(sessions[r].users) = 0
            /\ sessions[r].cleanupTimer # NoTimer \/ Len(sessions[r].history) > 0

\* C15: timer/participants consistency.  A room whose cleanupTimer is armed
\* has no participants; a pending timer is one of a room without
\* participants, so none fires for a room that has some; and a joinSession
\* into a room whose timer is armed leaves, in its one step, the joiner among
\* the participants, the room's cleanupTimer unset and no timer of the room
\* pending.
C15_TimerParticipants ==
  /\ \A r \in DOMAIN sessions :
       sessions[r].cleanupTimer # NoTimer => Len(sessions[r].users) = 0
  /\ \A t \in timers :
       t.sessionId \in DOMAIN sessions => Len(sessions[t.sessionId].users) = 0
  /\ EveryJoin(LAMBDA s, o :
       \A r \in DOMAIN sessions :
         (sessions[r].cleanupTimer # NoTimer /\ IsJoinAck(o.sent, s, r))
           => /\ MapHas(o.sessions[r].users, s)
              /\ o.sessions[r].cleanupTimer = NoTimer
              /\ \A t \in o.timers : t.sessionId # r)

\* a room that has rolls in its history is draining, its timer pending, and
\* a join into it cancels the timer
C15_JoinCancels ==
  \E r \in DOMAIN sessions :
    /\ Len(sessions[r].history) > 0
    /\ sessions[r].cleanupTimer # NoTimer
    /\ \E t \in timers : t.sessionId = r /\ t.id = sessions[r].cleanupTimer
    /\ SomeJoin(LAMBDA s, o :
         /\ IsJoinAck(o.sent, s, r)
         /\ MapKeys(o.sessions[r].users) = {s}
         /\ o.timers = {}
         /\ o.sessions[r].cleanupTimer = NoTimer)

\* room r is in the registry with no participants and an empty history
Drained(r) ==
  /\ r \in DOMAIN sessions
  /\ Len(sessions[r].users) = 0
  /\ Len(sessions[r].history) = 0

\* C16: eventual cleanup.  Always, a room with no participants and an empty
\* history has its cleanup timer armed and pending; and, the pending timers
\* firing fairly, such a room is eventually removed from the registry unless
\* a joinSession gives it a participant.
C16_EventualCleanup ==
  /\ [](\A r \in SessionIds :
          Drained(r) =>
            /\ sessions[r].cleanupTimer # NoTimer
            /\ \E t \in timers : t.sessionId = r /\ t.id = sessions[r].cleanupTimer)
  /\ \A r \in SessionIds :
       Drained(r) ~> (r \notin DOMAIN sessions \/ Len(sessions[r].users) > 0)

\* the GM has cleared the history and left: the room is empty, its timer is
\* pending, and the timer's firing removes the room
C16_AboutToGo ==
  \E r \in SessionIds :
    /\ Drained(r)
    /\ rollsMade > 0
    /\ \E s \in Connected : sockets[s].clientId = sessions[r].gmClientId
    /\ \E t \in timers : t.sessionId = r /\ r \notin DOMAIN TimerOutcome(t).sessions

\* the userJoined / userLeft messages of msgs that reach socket u
PresenceTo(msgs, u) ==
  {i \in 1..Len(msgs) :
     msgs[i].event \in {"userJoined", "userLeft"} /\ u \in msgs[i].targets}

\* the room's gmSocketId when it is among the room's participants
LiveGM(session) ==
  IF session.gmSocketId # NoSocket /\ MapHas(session.users, session.gmSocketId)
  THEN {session.gmSocketId} ELSE {}

\* in outcome o of actor s on room r, every connected participant other
\* than s gets exactly one message, of event ev, listing the participants
\* the room now has, with clientIds exactly when the receiver is the gmSocketId
SplitAudience(s, o, r, ev) ==
  LET session == o.sessions[r] IN
  \A u \in MapKeys(session.users) \ {s} :
    o.sockets[u].connected =>
      /\ Cardinality(PresenceTo(o.sent, u)) = 1
      /\ \A i \in PresenceTo(o.sent, u) :
           /\ o.sent[i].event = ev
           /\ Len(o.sent[i].users) = Len(session.users)
           /\ \A k \in 1..Len(session.users) :
                /\ o.sent[i].users[k].id = session.users[k].id
                /\ o.sent[i].users[k].name = session.users[k].name
                /\ ("clientId" \in DOMAIN o.sent[i].users[k]) <=> (u \in LiveGM(session))
                /\ u \in LiveGM(session) =>
                     o.sent[i].users[k].clientId = session.users[k].clientId

\* C17: presence audience split.  On every join, leave and disconnect, each
\* connected participant that remains in the room, the actor apart, receives
\* exactly one userJoined (on a join) or userLeft (on a leave or disconnect)
\* listing the participants after the change; the room's gmSocketId, when it
\* is a participant other than the actor, receives the list with clientIds
\* and every other participant the list without them, none of them both.
C17_PresenceSplit ==
  /\ EveryJoin(LAMBDA s, o :
       IsJoinAck(o.sent, s, o.sockets[s].sessionId)
         => SplitAudience(s, o, o.sockets[s].sessionId, "userJoined"))
  /\ EveryLeave(LAMBDA s, o :
       sockets[s].sessionId \in DOMAIN sessions
         => SplitAudience(s, o, sockets[s].sessionId, "userLeft"))
  /\ EveryDrop(LAMBDA s, o :
       sockets[s].sessionId \in DOMAIN sessions
         => SplitAudience(s, o, sockets[s].sessionId, "userLeft"))

\* three participants, the gmSocketId one of them: when another one drops,
\* the GM gets the list with clientIds and the third one the list without;
\* and when the GM leaves, both others get the list without
C17_ThreeInRoom ==
  \E r \in DOMAIN sessions :
    LET gm == sessions[r].gmSocketId IN
    /\ Cardinality(MapKeys(sessions[r].users) \cap Connected) = 3
    /\ gm \in MapKeys(sessions[r].users)
    /\ SomeDrop(LAMBDA s, o :
         /\ s # gm /\ sockets[s].sessionId = r
         /\ Len(o.sent) = 2
         /\ o.sent[1].targets = MapKeys(sessions[r].users) \ {s, gm}
         /\ WithClientIds(o.sent) = {2}
         /\ o.sent[2].targets = {gm})
    /\ SomeLeave(LAMBDA s, o :
         /\ s = gm /\ sockets[s].sessionId = r
         /\ Len(o.sent) = 1
         /\ o.sent[1].targets = MapKeys(sessions[r].users) \ {gm}
         /\ WithClientIds(o.sent) = {})

\* an empty or whitespace-only session id
Blank(id) == \A i \in 1..Len(id) : id[i] \in Whitespace

\* outcome o is one errorMessage to socket s and no change of state
OnlyError(s, o) ==
  /\ Len(o.sent) = 1
  /\ o.sent[1].event = "errorMessage"
  /\ o.sent[1].targets = {s}
  /\ o.sessions = sessions
  /\ o.timers = timers
  /\ o.sockets = sockets
  /\ o.rollsMade = rollsMade

\* C18: input errors change nothing.  A joinSession with an empty or
\* whitespace-only session id, and a rollDice, clearHistory or
\* refreshSession of a socket that is in no session, send one errorMessage to
\* the caller alone and change neither the registry (no room is created, no
\* room's participants, GM fields, history or timer change), nor the pending
\* timers, nor any socket's data.
C18_InputErrorsChangeNothing ==
  /\ \A s \in Connected, q \in JoinRequests, rnd \in RandomIds :
       Blank(q.sessionId) =>
         OnlyError(s, JoinOutcome(s, q.sessionId, q.name, q.clientId, rnd))
  /\ EveryRoll(LAMBDA s, o : sockets[s].sessionId = Null => OnlyError(s, o))
  /\ EveryClear(LAMBDA s, o : sockets[s].sessionId = Null => OnlyError(s, o))
  /\ EveryRefresh(LAMBDA s, o : sockets[s].sessionId = Null => OnlyError(s, o))

\* a room with a participant, and a connected socket that joined it and
\* left: its roll, clear and refresh requests, and a join with
\* a whitespace-only session id, are answered with an error
C18_Outsider ==
  \E r \in DOMAIN sessions : \E s \in Connected :
    /\ Len(sessions[r].users) > 0
    /\ sockets[s].sessionId = Null
    /\ sockets[s].clientId # Null
    /\ ClearOutcome(s).sent[1].message = "You must join a session first."
    /\ RefreshOutcome(s).sent[1].message = "Not in a session."
    /\ \E q \in JoinRequests, rnd \in RandomIds :
         /\ q.sessionId # <<>> /\ Blank(q.sessionId)
         /\ JoinOutcome(s, q.sessionId, q.name, q.clientId, rnd).sent[1].message
              = "Invalid session ID."
    /\ SomeRoll(LAMBDA u, o :
         u = s /\ o.sent[1].message = "You must join a session first.")

\* C20: live hidden-roll delivery with duplicate GM tokens.  Whenever a
\* connected participant of the room holds the GM token, a hidden roll made
\* in the room is delivered as diceRolled to one such participant and the
\* roller gets no 'GM not currently connected' error.  (Stated for the rooms
\* whose gmSocketId is unset or attached, the case of duplicate tokens.)
C20_HiddenRollReachesAGM ==
  EveryRoll(LAMBDA s, o :
    \A r \in DOMAIN sessions :
      ( /\ sockets[s].sessionId = r
        /\ LastRoll(o.sessions[r].history).hidden
        /\ GMParticipants(sessions[r], sockets) # {}
        /\ \/ sessions[r].gmSocketId = NoSocket
           \/ Attached(sessions[r], sessions[r].gmSocketId) )
        => /\ \E i \in 1..Len(o.sent) :
                /\ o.sent[i].event = "diceRolled"
                /\ o.sent[i].targets \cap GMParticipants(sessions[r], sockets) # {}
           /\ \A i \in 1..Len(o.sent) : o.sent[i] # ErrorMessage(s, NoGMError))

====
